---- MODULE Spec2Model ----
(***************************************************************************)
(* Model of the alphapicks evaluation pipeline (main.py) and of the pure   *)
(* functions it is built from (model.py, gex.py, realtime_prob.py).        *)
(*                                                                         *)
(* Floats are fixed-point integers.  Units:                                *)
(*   probabilities, prices, fees, edges : 1e-8   (ONE = 1.0)               *)
(*   spot, strike                       : dollars                          *)
(*   volatility                         : percent (18 = 0.18)              *)
(*   time                               : 1e-6 years                       *)
(*   ln(S/K), sigma*sqrt(T)             : 1e-5                             *)
(*   d1, d2                             : 1e-3                             *)
(*   gamma                              : 1e-6                             *)
(*   raw GEX                            : 1e6 dollars                      *)
(*   regime score                       : 1e-2                             *)
(*   tilt                               : 1e-4                             *)
(* float("nan") is the value NaN; every arithmetic operator propagates it  *)
(* and every comparison with it is FALSE, as in IEEE-754 / Python.         *)
(***************************************************************************)
EXTENDS Integers, Sequences, FiniteSets

VARIABLES pc, outcome, markets, spot_spy, expiries, gex_computed, gex_raw,
          regime, i, rows, ranked, max_trades, call, ret

vars == <<pc, outcome, markets, spot_spy, expiries, gex_computed, gex_raw,
          regime, i, rows, ranked, max_trades, call, ret>>

runVars == <<pc, outcome, markets, spot_spy, expiries, gex_computed, gex_raw,
             regime, i, rows, ranked, max_trades>>

pureVars == <<call, ret>>

----------------------------------------------------------------------------
(* Bounds of the model *)

MaxMarkets == 3
MaxExpiries == 2
MaxChainLen == 2

----------------------------------------------------------------------------
(* IEEE-754 / Python float behaviour *)

NaN == -2000000000
ONE == 100000000
CENT == ONE \div 100

IsNaN(x) == x = NaN

FAdd(a, b) == IF IsNaN(a) \/ IsNaN(b) THEN NaN ELSE a + b
FSub(a, b) == IF IsNaN(a) \/ IsNaN(b) THEN NaN ELSE a - b
FLt(a, b) == ~IsNaN(a) /\ ~IsNaN(b) /\ a < b
FLe(a, b) == ~IsNaN(a) /\ ~IsNaN(b) /\ a <= b
FGt(a, b) == ~IsNaN(a) /\ ~IsNaN(b) /\ a > b
FGe(a, b) == ~IsNaN(a) /\ ~IsNaN(b) /\ a >= b

(* builtin max(a, b) / min(a, b): the first argument is kept unless the     *)
(* second compares strictly greater / smaller, so a NaN first argument      *)
(* survives.                                                                *)
PyMax(a, b) == IF FGt(b, a) THEN b ELSE a
PyMin(a, b) == IF FLt(b, a) THEN b ELSE a

Abs(x) == IF x < 0 THEN -x ELSE x

----------------------------------------------------------------------------
(* math.sqrt, math.log, scipy.stats.norm, math.tanh in fixed point *)

RECURSIVE SqrtFrom(_, _)
SqrtFrom(n, r) == IF (r + 1) * (r + 1) > n THEN r ELSE SqrtFrom(n, r + 1)

\* math.sqrt(T): T in 1e-6, result in 1e-3
MathSqrt(T) == SqrtFrom(T, 0)

\* math.log(S / K) in 1e-5, by ln(x) = 2 atanh((x-1)/(x+1)) to third order
MathLogRatio(S, K) ==
    LET z  == ((S - K) * 100000) \div (S + K)
        zs == IF z < 0 THEN -((-z) \div 100) ELSE z \div 100
        z2 == (zs * zs) \div 10
        z3 == IF z < 0 THEN -((z2 * (-zs)) \div 1000) ELSE (z2 * zs) \div 1000
    IN  2 * z + (IF z3 < 0 THEN -((2 * (-z3)) \div 3) ELSE (2 * z3) \div 3)

\* Phi at -4.0, -3.5, ..., 4.0 in 1e-4
CdfTab == <<0, 2, 13, 62, 228, 668, 1587, 3085, 5000,
            6915, 8413, 9332, 9772, 9938, 9987, 9998, 10000>>

\* norm.cdf(d): d in 1e-3, result in 1e-8 (a multiple of 1e-4)
NormCdf(d) ==
    IF d <= -4000 THEN 0
    ELSE IF d >= 4000 THEN ONE
    ELSE LET k == (d + 4000) \div 500
             f == (d + 4000) % 500
             lo == CdfTab[k + 1]
             hi == CdfTab[k + 2]
         IN  (lo + ((hi - lo) * f) \div 500) * 10000

\* phi at 0.0, 0.5, ..., 4.5 in 1e-4
PdfTab == <<3989, 3521, 2420, 1295, 540, 175, 44, 9, 1, 0>>

\* norm.pdf(d): d in 1e-3, result in 1e-4; it underflows to 0 in the tails
NormPdf(d) ==
    LET a == Abs(d)
    IN  IF a >= 4500 THEN 0
        ELSE LET k == a \div 500
                 f == a % 500
                 lo == PdfTab[k + 1]
                 hi == PdfTab[k + 2]
             IN  lo - ((lo - hi) * f) \div 500

\* tanh at 0.0, 0.25, ..., 3.0 in 1e-2
TanhTab == <<0, 24, 46, 64, 76, 85, 91, 94, 96, 98, 99, 99, 100>>

\* math.tanh(x): x in 1e-3, result in 1e-2; odd, saturating at +/-1
MathTanh(x) ==
    LET a == Abs(x)
        t == IF a >= 3000 THEN 100
             ELSE LET k == a \div 250
                      f == a % 250
                      lo == TanhTab[k + 1]
                      hi == TanhTab[k + 2]
                  IN  lo + ((hi - lo) * f) \div 250
    IN  IF x < 0 THEN -t ELSE t

----------------------------------------------------------------------------
(* config.py *)

min_edge_net == 4000000
prob_clip_lo == 1000000
prob_clip_hi == 99000000
gex_tilt_max_abs == 600
spx_to_spy_ratio == 10
kalshi_fee_k == 7
default_max_trades == 12

----------------------------------------------------------------------------
(* model.py *)

\* What the unguarded arithmetic of the probability model does on numbers
\* outside its domain: division by zero, log of a non-positive ratio and
\* sqrt of a negative number raise.
MathRaises(S, K, sigma, T) ==
    /\ ~IsNaN(S) /\ ~IsNaN(K) /\ ~IsNaN(sigma) /\ ~IsNaN(T)
    /\ \/ K = 0
       \/ T < 0
       \/ sigma = 0
       \/ T = 0
       \/ (S <= 0 /\ K > 0)
       \/ (S >= 0 /\ K < 0)

\* d2 of model.py, in 1e-3
D2Direct(S, K, sigma, T) ==
    LET vol_sqrt == sigma * MathSqrt(T)
        num == MathLogRatio(S, K) - ((sigma * sigma * T) \div 200000)
    IN  IF num < 0 THEN -(((-num) * 1000) \div vol_sqrt)
        ELSE (num * 1000) \div vol_sqrt

\* digital_prob_log_normal with the time left out of the guard
digital_prob_unguarded_time(S, K, sigma, T_years) ==
    IF FLe(S, 0) \/ FLe(K, 0) \/ FLe(sigma, 0)
    THEN [raised |-> FALSE, p |-> NaN, d2 |-> NaN, sigma |-> sigma, T |-> T_years]
    ELSE IF MathRaises(S, K, sigma, T_years)
    THEN [raised |-> TRUE, p |-> NaN, d2 |-> NaN, sigma |-> sigma, T |-> T_years]
    ELSE LET d2 == D2Direct(S, K, sigma, T_years)
         IN  [raised |-> FALSE, p |-> NormCdf(d2), d2 |-> d2,
              sigma |-> sigma, T |-> T_years]

digital_prob_log_normal(S, K, sigma, T_years) ==
    IF FLe(S, 0) \/ FLe(K, 0) \/ FLe(sigma, 0) \/ FLe(T_years, 0)
    THEN [raised |-> FALSE, p |-> NaN, d2 |-> NaN, sigma |-> sigma, T |-> T_years]
    ELSE IF MathRaises(S, K, sigma, T_years)
    THEN [raised |-> TRUE, p |-> NaN, d2 |-> NaN, sigma |-> sigma, T |-> T_years]
    ELSE IF IsNaN(S) \/ IsNaN(K) \/ IsNaN(sigma) \/ IsNaN(T_years)
    THEN [raised |-> FALSE, p |-> NaN, d2 |-> NaN, sigma |-> sigma, T |-> T_years]
    ELSE LET d2 == D2Direct(S, K, sigma, T_years)
         IN  [raised |-> FALSE, p |-> NormCdf(d2), d2 |-> d2,
              sigma |-> sigma, T |-> T_years]

\* kalshi_fee_per_contract without the clamp of the price
kalshi_fee_unclamped(price_dollars, k) ==
    k * (price_dollars \div CENT) * ((ONE - price_dollars) \div CENT) * 100

\* price in 1e-8 (a whole number of cents), k in 1e-2, fee in 1e-8
kalshi_fee_per_contract(price_dollars, k) ==
    LET P == PyMin(PyMax(price_dollars, 0), ONE)
    IN  k * (P \div CENT) * ((ONE - P) \div CENT) * 100

expected_value_yes(p_true, price_yes, fee_per_contract) ==
    FSub(FSub(p_true, price_yes), fee_per_contract)

\* choose_bias with the two checks in the other order
choose_bias_no_first(p_true, kalshi_mid, fee, min_edge) ==
    LET ev_yes == expected_value_yes(p_true, kalshi_mid, fee)
        ev_no  == expected_value_yes(FSub(ONE, p_true), FSub(ONE, kalshi_mid), fee)
    IN  IF FGe(ev_no, min_edge) THEN "BUY_NO"
        ELSE IF FGe(ev_yes, min_edge) THEN "BUY_YES"
        ELSE "NO_TRADE"

choose_bias(p_true, kalshi_mid, fee, min_edge) ==
    LET ev_yes == expected_value_yes(p_true, kalshi_mid, fee)
        ev_no  == expected_value_yes(FSub(ONE, p_true), FSub(ONE, kalshi_mid), fee)
    IN  IF FGe(ev_yes, min_edge) THEN "BUY_YES"
        ELSE IF FGe(ev_no, min_edge) THEN "BUY_NO"
        ELSE "NO_TRADE"

----------------------------------------------------------------------------
(* realtime_prob.py *)

\* d1 shared by realtime_prob.py and gex.py, in 1e-3
D1(S, K, sigma, T) ==
    LET vol_sqrt == sigma * MathSqrt(T)
        num == MathLogRatio(S, K) + ((sigma * sigma * T) \div 200000)
    IN  IF num < 0 THEN -(((-num) * 1000) \div vol_sqrt)
        ELSE (num * 1000) \div vol_sqrt

rt_digital_prob_log_normal(S, K, sigma, T_years) ==
    IF FLe(S, 0) \/ FLe(K, 0) \/ FLe(sigma, 0) \/ FLe(T_years, 0)
    THEN [raised |-> FALSE, p |-> NaN, d1 |-> NaN, d2 |-> NaN]
    ELSE IF MathRaises(S, K, sigma, T_years)
    THEN [raised |-> TRUE, p |-> NaN, d1 |-> NaN, d2 |-> NaN]
    ELSE IF IsNaN(S) \/ IsNaN(K) \/ IsNaN(sigma) \/ IsNaN(T_years)
    THEN [raised |-> FALSE, p |-> NaN, d1 |-> NaN, d2 |-> NaN]
    ELSE LET vol_sqrt == sigma * MathSqrt(T_years)
             d1 == D1(S, K, sigma, T_years)
             d2 == d1 - (vol_sqrt \div 100)
         IN  [raised |-> FALSE, p |-> NormCdf(d2), d1 |-> d1, d2 |-> d2]

----------------------------------------------------------------------------
(* gex.py *)

\* gamma in 1e-6
bs_gamma(S, K, sigma, T) ==
    IF FLe(S, 0) \/ FLe(K, 0) \/ FLe(sigma, 0) \/ FLe(T, 0)
    THEN [raised |-> FALSE, v |-> NaN]
    ELSE IF MathRaises(S, K, sigma, T)
    THEN [raised |-> TRUE, v |-> NaN]
    ELSE IF IsNaN(S) \/ IsNaN(K) \/ IsNaN(sigma) \/ IsNaN(T)
    THEN [raised |-> FALSE, v |-> NaN]
    ELSE LET vol_sqrt == sigma * MathSqrt(T)
             pdf == NormPdf(D1(S, K, sigma, T))
         IN  [raised |-> FALSE, v |-> (((pdf * 10000) \div S) * 1000) \div vol_sqrt]

\* openInterest * gamma * spot^2 * multiplier, in 1e6 dollars
GexTerm(oi, gamma, spot) ==
    IF IsNaN(oi) \/ IsNaN(gamma) THEN NaN
    ELSE (((((gamma * spot) \div 10000) * spot) \div 1000) * oi) \div 1000

\* One iteration of the loop over chain.iterrows(): the running sum after
\* the row, or "raised".
GexStep(acc, row, spot, T_years) ==
    \* float(x or 0.0) leaves a number unchanged, and a NaN too (it is truthy)
    LET K  == row.strike
        oi == row.openInterest
        iv == row.impliedVolatility
    IN  IF acc.raised THEN acc
        ELSE IF FLe(K, 0) \/ FLe(oi, 0) \/ FLe(iv, 0) THEN acc
        ELSE LET g == bs_gamma(spot, K, iv, T_years)
             IN  IF g.raised THEN [raised |-> TRUE, v |-> NaN]
                 ELSE IF IsNaN(g.v) \/ FLe(g.v, 0) THEN acc
                 ELSE [raised |-> FALSE, v |-> FAdd(acc.v, GexTerm(oi, g.v, spot))]

RECURSIVE GexLoop(_, _, _, _, _)
GexLoop(acc, chain, n, spot, T_years) ==
    IF n > Len(chain) THEN acc
    ELSE GexLoop(GexStep(acc, chain[n], spot, T_years), chain, n + 1, spot, T_years)

compute_gex_from_chain(spot, chain, T_years) ==
    IF chain = <<>> THEN [raised |-> FALSE, v |-> 0]
    ELSE GexLoop([raised |-> FALSE, v |-> 0], chain, 1, spot, T_years)

\* gex in 1e6 dollars, scale = 1e9, score in 1e-2
gex_regime_score(gex_value) ==
    IF IsNaN(gex_value) THEN NaN ELSE MathTanh(gex_value)

----------------------------------------------------------------------------
(* What the external collaborators can return *)

Pt(K, oi, iv) == [strike |-> K, openInterest |-> oi, impliedVolatility |-> iv]

Quote(T, thr, mid) == [T |-> T, threshold_spx |-> thr, mid |-> mid * CENT]

\* mock_kalshi_markets.json entries; T is time_to_target_years at evaluation
Quotes ==
    { Quote(400, 6950, 30), Quote(400, 7000, 60), Quote(400, 6950, 50),
      Quote(0, 6950, 30), Quote(400, 0, 30) }

MarketSeqs == UNION { [1..n -> Quotes] : n \in 0..MaxMarkets }

Spots == {695, 0}

\* An expiry inside the lookahead window: its time to 16:00 ET and the
\* option surface the data provider holds for it.
Expiry(T, calls, puts) == [T |-> T, calls |-> calls, puts |-> puts]

ExpiryKinds ==
    { Expiry(300, <<>>, <<>>),
      Expiry(300, <<Pt(695, 50, 18), Pt(700, 30, 18)>>, <<Pt(690, 40, 20)>>),
      Expiry(300, <<Pt(695, 500, NaN), Pt(700, NaN, 18)>>, <<>>),
      Expiry(300, <<Pt(695, 10000, 18)>>, <<>>),
      Expiry(0, <<Pt(695, 50, 18)>>, <<>>) }

ExpirySeqs == UNION { [1..n -> ExpiryKinds] : n \in 0..MaxExpiries }

TradeCounts == {1, 2, default_max_trades}

----------------------------------------------------------------------------
(* main.py *)

Init ==
    /\ pc = "load"
    /\ outcome = "running"
    /\ markets = <<>>
    /\ spot_spy = 0
    /\ expiries = <<>>
    /\ gex_computed = FALSE
    /\ gex_raw = 0
    /\ regime = 0
    /\ i = 1
    /\ rows = <<>>
    /\ ranked = <<>>
    /\ max_trades = default_max_trades
    /\ call = [fn |-> "none"]
    /\ ret = 0

\* An exception nobody catches ends the process with a traceback; the
\* outcome names the call it came from.
Errors == {"load_error", "spot_error", "expiries_error", "surface_error",
           "iv_error", "model_error"}

Unhandled(where) ==
    /\ pc' = "done"
    /\ outcome' = where

\* markets = load_mock_markets(...): open() raises when the file is missing
LoadMarkets ==
    /\ pc = "load"
    /\ \E ok \in BOOLEAN, ms \in MarketSeqs :
          IF ok
          THEN /\ markets' = ms
               /\ pc' = "spot"
               /\ outcome' = outcome
          ELSE /\ Unhandled("load_error")
               /\ markets' = markets
    /\ UNCHANGED <<spot_spy, expiries, gex_computed, gex_raw, regime, i, rows,
                   ranked, max_trades, call, ret>>

\* fetch_spy_spot(): a failing fast_info is caught and history() is tried;
\* a failing or empty history() raises out of main.
FetchSpot ==
    /\ pc = "spot"
    /\ \E fastOk \in BOOLEAN, histOk \in BOOLEAN, v \in Spots :
          IF fastOk \/ histOk
          THEN /\ spot_spy' = v
               /\ pc' = "expiries"
               /\ outcome' = outcome
          ELSE /\ Unhandled("spot_error")
               /\ spot_spy' = spot_spy
    /\ UNCHANGED <<markets, expiries, gex_computed, gex_raw, regime, i, rows,
                   ranked, max_trades, call, ret>>

\* PickNearExpiry without the "if not expiries" check
PickNearExpiryUnchecked ==
    /\ pc = "expiries"
    /\ \E ok \in BOOLEAN, es \in ExpirySeqs :
          IF ~ok
          THEN /\ Unhandled("expiries_error")
               /\ expiries' = expiries
          ELSE /\ expiries' = es
               /\ pc' = "gex"
               /\ outcome' = outcome
    /\ UNCHANGED <<markets, spot_spy, gex_computed, gex_raw, regime, i, rows,
                   ranked, max_trades, call, ret>>

\* pick_near_expiry() and the "if not expiries" check of main
PickNearExpiry ==
    /\ pc = "expiries"
    /\ \E ok \in BOOLEAN, es \in ExpirySeqs :
          IF ~ok
          THEN /\ Unhandled("expiries_error")
               /\ expiries' = expiries
          ELSE /\ expiries' = es
               /\ IF es = <<>>
                  THEN pc' = "done" /\ outcome' = "no_expiries"
                  ELSE pc' = "gex" /\ outcome' = outcome
    /\ UNCHANGED <<markets, spot_spy, gex_computed, gex_raw, regime, i, rows,
                   ranked, max_trades, call, ret>>

\* One iteration of the loop of build_gex_proxy; fetched tells whether
\* ticker.option_chain(e) answers.
GexProxyStep(acc, e, spot, fetched) ==
    IF acc.raised THEN acc
    ELSE IF e.T <= 0 THEN acc
    ELSE IF ~fetched THEN [raised |-> TRUE, v |-> NaN]
    ELSE LET c == compute_gex_from_chain(spot, e.calls, e.T)
             p == compute_gex_from_chain(spot, e.puts, e.T)
         IN  IF c.raised \/ p.raised THEN [raised |-> TRUE, v |-> NaN]
             ELSE [raised |-> FALSE, v |-> FAdd(FAdd(acc.v, c.v), p.v)]

RECURSIVE GexProxyLoop(_, _, _, _, _)
GexProxyLoop(acc, es, n, spot, fetched) ==
    IF n > Len(es) THEN acc
    ELSE GexProxyLoop(GexProxyStep(acc, es[n], spot, fetched), es, n + 1, spot, fetched)

build_gex_proxy(es, spot, fetched) ==
    GexProxyLoop([raised |-> FALSE, v |-> 0], es, 1, spot, fetched)

\* gex_raw = build_gex_proxy(...); regime = gex_regime_score(gex_raw)
BuildGex ==
    /\ pc = "gex"
    /\ \E fetched \in BOOLEAN :
          LET g == build_gex_proxy(expiries, spot_spy, fetched)
          IN  IF g.raised
              THEN /\ Unhandled("surface_error")
                   /\ UNCHANGED <<gex_computed, gex_raw, regime>>
              ELSE /\ gex_raw' = g.v
                   /\ regime' = gex_regime_score(g.v)
                   /\ gex_computed' = TRUE
                   /\ pc' = "eval"
                   /\ outcome' = outcome
    /\ UNCHANGED <<markets, spot_spy, expiries, i, rows, ranked, max_trades,
                   call, ret>>

\* estimate_iv_near_strike(): the calls sorted by |strike - K| (the default,
\* unstable sort: among equidistant strikes either may come first), the
\* first row's implied volatility, NaN unless it is > 0.
Dist(row, K) == IF IsNaN(row.strike) THEN NaN ELSE Abs(row.strike - K)

NearestRows(calls, K) ==
    LET known == { n \in 1..Len(calls) : ~IsNaN(Dist(calls[n], K)) }
    IN  IF known = {} THEN {1}
        ELSE { n \in known : \A m \in known : Dist(calls[n], K) <= Dist(calls[m], K) }

NearStrikeIv(row) ==
    LET iv == row.impliedVolatility
    IN  IF FGt(iv, 0) THEN iv ELSE NaN

\* min(max(p, prob_clip[0]), prob_clip[1])
Clip(p) == PyMin(PyMax(p, prob_clip_lo), prob_clip_hi)

\* tilt = -regime * gex_tilt_max_abs, in 1e-4
Tilt(r) == IF IsNaN(r) THEN NaN ELSE -((r * gex_tilt_max_abs) \div 100)

\* p * (1.0 + tilt); p is a multiple of 1e-4
ApplyTilt(p, tilt) ==
    IF IsNaN(p) \/ IsNaN(tilt) THEN NaN ELSE (p \div 10000) * (10000 + tilt)

\* The dict appended to rows for market n with IV iv and base probability p0
EvaluationRecord(n, m, K_spy, iv, p0) ==
    LET p == Clip(p0)
        p_adj == Clip(ApplyTilt(p, Tilt(regime)))
        fee == kalshi_fee_per_contract(m.mid, kalshi_fee_k)
        edge_yes == FSub(FSub(p_adj, m.mid), fee)
        edge_no == FSub(FSub(FSub(ONE, p_adj), FSub(ONE, m.mid)), fee)
    IN  [market_id |-> n,
         threshold_spx |-> m.threshold_spx,
         spot_spy |-> spot_spy,
         K_spy_proxy |-> K_spy,
         iv_proxy |-> iv,
         T_years |-> m.T,
         p_model |-> p,
         p_adj |-> p_adj,
         kalshi_mid |-> m.mid,
         fee_est |-> fee,
         edge_yes |-> edge_yes,
         edge_no |-> edge_no,
         best_edge |-> PyMax(edge_yes, edge_no),
         signal |-> choose_bias(p_adj, m.mid, fee, min_edge_net)]

\* if T <= 0: continue
SkipsOnTime(m) == m.T <= 0

\* if not (iv and iv > 0 and math.isfinite(iv)): continue
SkipsOnIv(iv) == ~(~IsNaN(iv) /\ iv # 0 /\ iv > 0)

\* One iteration of "for m in markets"
EvalMarket ==
    /\ pc = "eval"
    /\ i <= Len(markets)
    /\ LET m == markets[i]
           K_spy == m.threshold_spx \div spx_to_spy_ratio
           calls == expiries[1].calls
       IN  IF SkipsOnTime(m)
           THEN /\ i' = i + 1
                /\ UNCHANGED <<pc, outcome, rows>>
           ELSE \E fetched \in BOOLEAN :
                  IF ~fetched \/ calls = <<>>
                  THEN /\ Unhandled("iv_error")
                       /\ UNCHANGED <<i, rows>>
                  ELSE \E n \in NearestRows(calls, K_spy) :
                         LET iv == NearStrikeIv(calls[n])
                             r == digital_prob_log_normal(spot_spy, K_spy, iv, m.T)
                         IN  IF SkipsOnIv(iv)
                             THEN /\ i' = i + 1
                                  /\ UNCHANGED <<pc, outcome, rows>>
                             ELSE IF r.raised
                             THEN /\ Unhandled("model_error")
                                  /\ UNCHANGED <<i, rows>>
                             ELSE /\ rows' = Append(rows, EvaluationRecord(i, m, K_spy, iv, r.p))
                                  /\ i' = i + 1
                                  /\ UNCHANGED <<pc, outcome>>
    /\ UNCHANGED <<markets, spot_spy, expiries, gex_computed, gex_raw, regime,
                   ranked, max_trades, call, ret>>

\* Descending with ascending=False forgotten
Ascending(rs, f) ==
    \A a, b \in 1..Len(rs) :
        a < b =>
          LET x == rs[f[a]].best_edge
              y == rs[f[b]].best_edge
          IN  IF IsNaN(x) THEN IsNaN(y) /\ f[a] < f[b]
              ELSE IsNaN(y) \/ x <= y

\* df.sort_values("best_edge", ascending=False): descending, NaN last in
\* input order; the default kind is quicksort, which is not stable, so
\* records with equal best_edge may come out in any order.
Descending(rs, f) ==
    \A a, b \in 1..Len(rs) :
        a < b =>
          LET x == rs[f[a]].best_edge
              y == rs[f[b]].best_edge
          IN  IF IsNaN(x) THEN IsNaN(y) /\ f[a] < f[b]
              ELSE IsNaN(y) \/ x >= y

Permutations(n) ==
    { f \in [1..n -> 1..n] : \A a, b \in 1..n : a # b => f[a] # f[b] }

sort_values(rs) ==
    { [k \in 1..Len(rs) |-> rs[f[k]]] :
        f \in { g \in Permutations(Len(rs)) : Descending(rs, g) } }

\* .head(n)
head(s, n) == SubSeq(s, 1, IF n < Len(s) THEN n ELSE Len(s))

\* After the loop: the empty check, then sort, head and the printed table.
\* max_trades is the configured SETTINGS.max_trades read here.
Rank ==
    /\ pc = "eval"
    /\ i > Len(markets)
    /\ pc' = "done"
    /\ \E N \in TradeCounts :
          /\ max_trades' = N
          /\ IF rows = <<>>
             THEN /\ outcome' = "no_markets"
                  /\ ranked' = ranked
             ELSE /\ outcome' = "table"
                  /\ \E s \in sort_values(rows) : ranked' = head(s, N)
    /\ UNCHANGED <<markets, spot_spy, expiries, gex_computed, gex_raw, regime,
                   i, rows, call, ret>>

Next ==
    \/ LoadMarkets
    \/ FetchSpot
    \/ PickNearExpiry
    \/ BuildGex
    \/ EvalMarket
    \/ Rank

Spec == Init /\ [][Next]_vars

----------------------------------------------------------------------------
(* The pure functions, each applied once to arguments drawn from the sets *)

BiasProbs == {NaN, prob_clip_lo, 30 * CENT, 60 * CENT, prob_clip_hi}
BiasMids == {0, 30 * CENT, 55 * CENT, ONE}
BiasFees == {0, 1732500, 1750000}
BiasEdges == {-5 * CENT, 0, min_edge_net}

FeePrices == { c * CENT : c \in -10..110 }
FeeCoefficients == {1, kalshi_fee_k, 25}

ProbSpots == {-695, 0, 695, 700}
ProbStrikes == {-700, 0, 690, 700}
ProbVols == {-18, 0, 18, 40}
ProbTimes == {-100, 0, 400, 2740}

SurfacePoints ==
    { Pt(700, 500, 18), Pt(690, 1000, 25), Pt(0, 500, 18), Pt(700, 0, 18),
      Pt(700, 500, 0), Pt(700, 500, NaN), Pt(700, NaN, 18), Pt(300, 500, 18) }

Chains == UNION { [1..n -> SurfacePoints] : n \in 0..MaxChainLen }

CallChooseBias ==
    /\ call.fn = "none"
    /\ \E p \in BiasProbs, M \in BiasMids, f \in BiasFees, e \in BiasEdges :
          /\ call' = [fn |-> "choose_bias", args |-> <<p, M, f, e>>]
          /\ ret' = choose_bias(p, M, f, e)
    /\ UNCHANGED runVars

CallFee ==
    /\ call.fn = "none"
    /\ \E P \in FeePrices, k \in FeeCoefficients :
          /\ call' = [fn |-> "kalshi_fee_per_contract", args |-> <<P, k>>]
          /\ ret' = kalshi_fee_per_contract(P, k)
    /\ UNCHANGED runVars

CallDigitalProb ==
    /\ call.fn = "none"
    /\ \E S \in ProbSpots, K \in ProbStrikes, v \in ProbVols, T \in ProbTimes :
          /\ call' = [fn |-> "digital_prob_log_normal", args |-> <<S, K, v, T>>]
          /\ ret' = digital_prob_log_normal(S, K, v, T)
    /\ UNCHANGED runVars

CallRtDigitalProb ==
    /\ call.fn = "none"
    /\ \E S \in ProbSpots, K \in ProbStrikes, v \in ProbVols, T \in ProbTimes :
          /\ call' = [fn |-> "rt_digital_prob_log_normal", args |-> <<S, K, v, T>>]
          /\ ret' = rt_digital_prob_log_normal(S, K, v, T)
    /\ UNCHANGED runVars

CallBsGamma ==
    /\ call.fn = "none"
    /\ \E S \in ProbSpots, K \in ProbStrikes, v \in ProbVols, T \in ProbTimes :
          /\ call' = [fn |-> "bs_gamma", args |-> <<S, K, v, T>>]
          /\ ret' = bs_gamma(S, K, v, T)
    /\ UNCHANGED runVars

CallComputeGex ==
    /\ call.fn = "none"
    /\ \E spot \in Spots, chain \in Chains, T \in {0, 300} :
          /\ call' = [fn |-> "compute_gex_from_chain", args |-> <<spot, chain, T>>]
          /\ ret' = compute_gex_from_chain(spot, chain, T)
    /\ UNCHANGED runVars

NextPure ==
    \/ CallChooseBias
    \/ CallFee
    \/ CallDigitalProb
    \/ CallRtDigitalProb
    \/ CallBsGamma
    \/ CallComputeGex

SpecPure == Init /\ [][NextPure]_vars

----------------------------------------------------------------------------
(* Properties *)

EvYes(p, M, f) == FSub(FSub(p, M), f)
EvNo(p, M, f) == FSub(FSub(FSub(ONE, p), FSub(ONE, M)), f)

\* C1: choose_bias returns exactly one of BUY_YES, BUY_NO, NO_TRADE:
\* BUY_YES iff ev_yes >= min_edge; BUY_NO iff ev_yes < min_edge and
\* ev_no >= min_edge; NO_TRADE otherwise.  When both directions qualify the
\* result is BUY_YES.
C1_ChooseBiasTotal ==
    call.fn = "choose_bias" =>
        LET p == call.args[1]
            M == call.args[2]
            f == call.args[3]
            e == call.args[4]
            yes == FGe(EvYes(p, M, f), e)
            no == FGe(EvNo(p, M, f), e)
        IN  /\ ret \in {"BUY_YES", "BUY_NO", "NO_TRADE"}
            /\ (ret = "BUY_YES") <=> yes
            /\ (ret = "BUY_NO") <=> (FLt(EvYes(p, M, f), e) /\ no)
            /\ (ret = "NO_TRADE") <=> (~yes /\ ~no)
            /\ (yes /\ no) => ret = "BUY_YES"

\* Both directions qualify (min_edge <= -fee) and BUY_YES was returned.
C1_Witness ==
    /\ call.fn = "choose_bias"
    /\ FGe(EvYes(call.args[1], call.args[2], call.args[3]), call.args[4])
    /\ FGe(EvNo(call.args[1], call.args[2], call.args[3]), call.args[4])
    /\ call.args[3] > 0
    /\ ret = "BUY_YES"

Ids(s) == { s[k].market_id : k \in 1..Len(s) }

\* C2: the ranked output has length min(max_trades, number of records), is
\* in non-increasing order of best_edge, is drawn from the run's records, and
\* holds no record whose best_edge is smaller than that of a record left out.
C2_RankedTopN ==
    outcome = "table" =>
        /\ Len(ranked) = (IF max_trades < Len(rows) THEN max_trades ELSE Len(rows))
        /\ \A a \in 1..Len(ranked) : \E k \in 1..Len(rows) : ranked[a] = rows[k]
        /\ Cardinality(Ids(ranked)) = Len(ranked)
        /\ \A a, b \in 1..Len(ranked) :
              a < b => ~FLt(ranked[a].best_edge, ranked[b].best_edge)
        /\ \A a \in 1..Len(ranked), k \in 1..Len(rows) :
              rows[k].market_id \notin Ids(ranked)
                => ~FLt(ranked[a].best_edge, rows[k].best_edge)

\* Three records, the best one evaluated last, two kept and one cut.
C2_Witness ==
    /\ outcome = "table"
    /\ Len(rows) = 3
    /\ max_trades = 2
    /\ Len(ranked) = 2
    /\ FLt(rows[1].best_edge, rows[3].best_edge)
    /\ FLt(rows[2].best_edge, rows[1].best_edge)
    /\ ranked[1] = rows[3]

FEq(a, b) == ~IsNaN(a) /\ ~IsNaN(b) /\ a = b

\* C3: ranking is stable: of two records with equal best_edge the one whose
\* contract came earlier in the input appears earlier in the output, and when
\* a tie straddles the cut the earlier one is kept.
C3_StableRanking ==
    outcome = "table" =>
        /\ \A a, b \in 1..Len(ranked) :
              (a < b /\ FEq(ranked[a].best_edge, ranked[b].best_edge))
                => ranked[a].market_id < ranked[b].market_id
        /\ \A a \in 1..Len(ranked), k \in 1..Len(rows) :
              (rows[k].market_id \notin Ids(ranked)
                 /\ FEq(ranked[a].best_edge, rows[k].best_edge))
                => ranked[a].market_id < rows[k].market_id

\* C4: no evaluation record exists for a contract with a non-positive spot,
\* proxy threshold, implied volatility or time-to-target, and no record
\* holds an undefined (NaN) probability or edge.
C4_InvalidInputSkipped ==
    \A k \in 1..Len(rows) :
        /\ FGt(rows[k].spot_spy, 0)
        /\ FGt(rows[k].K_spy_proxy, 0)
        /\ FGt(rows[k].iv_proxy, 0)
        /\ FGt(rows[k].T_years, 0)
        /\ ~IsNaN(rows[k].p_model)
        /\ ~IsNaN(rows[k].p_adj)
        /\ ~IsNaN(rows[k].edge_yes)
        /\ ~IsNaN(rows[k].edge_no)
        /\ ~IsNaN(rows[k].best_edge)

AllSurfacesEmpty ==
    \A n \in 1..Len(expiries) : expiries[n].calls = <<>> /\ expiries[n].puts = <<>>

\* C5: a run with no expiry in the window ends in the no-data outcome with
\* no raw GEX, regime score or record computed; a run with an expiry whose
\* surfaces are all empty computes a raw GEX of exactly 0 and goes on to the
\* evaluation of the contracts.  A raw GEX is never computed without expiries.
C5_NoDataVersusMeasuredZero ==
    /\ (pc \notin {"load", "spot", "expiries"} /\ outcome \notin Errors /\ expiries = <<>>)
         => /\ outcome = "no_expiries"
            /\ pc = "done"
            /\ ~gex_computed
            /\ rows = <<>>
            /\ ranked = <<>>
    /\ gex_computed => expiries # <<>> /\ outcome # "no_expiries"
    /\ (gex_computed /\ AllSurfacesEmpty) => gex_raw = 0 /\ regime = 0
    /\ (pc \in {"eval"} \/ outcome \in {"table", "no_markets"}) => gex_computed
    /\ (pc = "gex" /\ AllSurfacesEmpty) => ENABLED BuildGex

\* Every surface is empty, the raw GEX is a measured 0 and the loop over the
\* contracts has been entered.
C5_Witness ==
    /\ expiries # <<>>
    /\ \E n \in 1..Len(expiries) : expiries[n].T > 0
    /\ AllSurfacesEmpty
    /\ gex_computed
    /\ gex_raw = 0
    /\ pc = "eval"
    /\ markets # <<>>

\* C6: a failing or unusable external fetch (spot, expiry listing, option
\* surface, nearest implied volatility, an empty call chain included) never
\* ends the run with an unhandled error: the run ends with a no-results
\* outcome or skips the contract, and no table is shown for such a run.
C6_FetchFailureIsNoData ==
    outcome \notin {"spot_error", "expiries_error", "surface_error", "iv_error"}

\* C7: in every run the tilt -regime * gex_tilt_max_abs satisfies
\* |tilt| <= gex_tilt_max_abs.
C7_TiltBounded ==
    gex_computed =>
        /\ FLe(Tilt(regime), gex_tilt_max_abs)
        /\ FGe(Tilt(regime), -gex_tilt_max_abs)

Clamp01(P) == IF P < 0 THEN 0 ELSE IF P > ONE THEN ONE ELSE P

\* C8: the fee is k * P' * (1 - P') for the price P' clamped into [0, 1], so
\* 0 <= fee <= fee(0.5) = 0.25 k, fee(P) = fee(1 - P) on [0, 1], and
\* fee(0) = fee(1) = 0.
C8_FeeShape ==
    call.fn = "kalshi_fee_per_contract" =>
        LET P == call.args[1]
            k == call.args[2]
            Q == Clamp01(P)
        IN  /\ ret * 100 = k * (Q \div 10000) * ((ONE - Q) \div 10000)
            /\ 0 <= ret
            /\ ret <= kalshi_fee_per_contract(50 * CENT, k)
            /\ kalshi_fee_per_contract(50 * CENT, k) * 4 = k * CENT
            /\ (0 <= P /\ P <= ONE) => ret = kalshi_fee_per_contract(ONE - P, k)
            /\ Q \in {0, ONE} => ret = 0

\* A price above 1 was clamped, and a price strictly inside (0, 1) was charged.
C8_Witness ==
    /\ call.fn = "kalshi_fee_per_contract"
    /\ call.args[1] = 30 * CENT
    /\ call.args[2] = kalshi_fee_k
    /\ ret = 1470000

OutOfDomain(args) == \E n \in 1..4 : args[n] <= 0

\* C9: the probability model never raises; it returns the undefined (NaN)
\* probability iff one of S, K, sigma, T is non-positive and a probability
\* in [0, 1] otherwise; both copies of the model and bs_gamma are undefined
\* on exactly the same arguments.
C9_SentinelIffOutOfDomain ==
    /\ call.fn \in {"digital_prob_log_normal", "rt_digital_prob_log_normal"} =>
          /\ ~ret.raised
          /\ IsNaN(ret.p) <=> OutOfDomain(call.args)
          /\ ~OutOfDomain(call.args) => (0 <= ret.p /\ ret.p <= ONE)
    /\ call.fn = "bs_gamma" =>
          /\ ~ret.raised
          /\ IsNaN(ret.v) <=> OutOfDomain(call.args)
          /\ ~OutOfDomain(call.args) => ret.v >= 0

\* Only the time is out of domain (the target has passed) and the sentinel
\* came back.
C9_Witness ==
    /\ call.fn = "digital_prob_log_normal"
    /\ call.args[1] > 0 /\ call.args[2] > 0 /\ call.args[3] > 0
    /\ call.args[4] <= 0
    /\ ~ret.raised
    /\ IsNaN(ret.p)

ValidPoint(pt, spot, T) ==
    /\ FGt(pt.strike, 0)
    /\ FGt(pt.openInterest, 0)
    /\ FGt(pt.impliedVolatility, 0)
    /\ FGt(bs_gamma(spot, pt.strike, pt.impliedVolatility, T).v, 0)

RECURSIVE SumValid(_, _, _, _)
SumValid(chain, n, spot, T) ==
    IF n > Len(chain) THEN 0
    ELSE (IF ValidPoint(chain[n], spot, T)
          THEN GexTerm(chain[n].openInterest,
                       bs_gamma(spot, chain[n].strike, chain[n].impliedVolatility, T).v,
                       spot)
          ELSE 0)
         + SumValid(chain, n + 1, spot, T)

\* C10: compute_gex_from_chain returns the sum of the terms of exactly the
\* points with strike > 0, open interest > 0, implied volatility > 0 and a
\* defined, positive gamma; every other point is skipped without raising.
C10_SumOverValidPoints ==
    call.fn = "compute_gex_from_chain" =>
        /\ ~ret.raised
        /\ ret.v = SumValid(call.args[2], 1, call.args[1], call.args[3])

\* C11: the raw GEX of a run is >= 0, so the regime score is never negative
\* and the tilt never positive, and in every evaluation record the adjusted
\* probability does not exceed the clipped model probability.
C11_OverlayOnlyLowers ==
    gex_computed =>
        /\ FGe(gex_raw, 0)
        /\ FGe(regime, 0)
        /\ FLe(Tilt(regime), 0)
        /\ \A k \in 1..Len(rows) : FLe(rows[k].p_adj, rows[k].p_model)

\* C12: every evaluation record agrees with the decision rule: NO_TRADE iff
\* best_edge = max(edge_yes, edge_no) is below min_edge_net, BUY_YES only if
\* edge_yes >= min_edge_net, BUY_NO only if edge_no >= min_edge_net, and
\* edge_yes + edge_no = -2 * fee_est.
C12_RecordMatchesRule ==
    \A k \in 1..Len(rows) :
        LET r == rows[k]
        IN  /\ r.signal \in {"BUY_YES", "BUY_NO", "NO_TRADE"}
            /\ FEq(r.best_edge, PyMax(r.edge_yes, r.edge_no))
            /\ (r.signal = "NO_TRADE") <=> FLt(r.best_edge, min_edge_net)
            /\ (r.signal = "BUY_YES") => FGe(r.edge_yes, min_edge_net)
            /\ (r.signal = "BUY_NO") => FGe(r.edge_no, min_edge_net)
            /\ FEq(FAdd(r.edge_yes, r.edge_no), -2 * r.fee_est)
            /\ ~(FGe(r.edge_yes, min_edge_net) /\ FGe(r.edge_no, min_edge_net))

====
